---- MODULE Spec2Model ----
(***************************************************************************)
(* A model of ado: the task stores (FakeTodoList of src/main.rs and of     *)
(* src/core/mod.rs, FileTodoList of src/main.rs), the status machine of    *)
(* BasicTask and the TaskPicker cursor of src/main.rs.                     *)
(*                                                                         *)
(* Text is a sequence of one-character strings.  The directory ./.ado/ is  *)
(* a function from file names to file contents.  Every filesystem call of  *)
(* the code takes an outcome ("ok" or a failure) as an input, so that each *)
(* `?` / try! of the source is a branch of the model.  A panic of the code *)
(* ends the process: crashed becomes TRUE and only a new process           *)
(* (Restart) can follow.                                                   *)
(***************************************************************************)
EXTENDS Integers, Sequences, FiniteSets, TLC

VARIABLES backend, position, tasks, cache, dir, next_id, crashed, last,
          maxInst, maxEver, order, removed

vars == <<backend, position, tasks, cache, dir, next_id, crashed, last,
          maxInst, maxEver, order, removed>>

\* ---------------------------------------------------------------- bounds
\* create is not called once next_id exceeds MaxId
MaxId == 2
\* down is not called once position exceeds MaxPos
MaxPos == 3

\* --------------------------------------------------------------- constants
\* {:05} of FileTodoList::file_name
Width == 5
\* FakeTodoList::new: next_id: 0
FakeFirstId == 0
\* FileTodoList::new: ids()?.max().unwrap_or(0)
NoMaxDefault == 0

\* the value standing for "no id" (a name that does not parse, no item)
NoId == 0 - 1
NL == "\n"
CR == "\r"
Names == {<<"a">>, <<"b">>}
Statuses == {"Open", "Done", "Wont"}
NoTask == [name |-> <<>>, status |-> "None"]
EmptyMap == [k \in {} |-> NoTask]

\* ------------------------------------------------------------------ text
DigitChars == <<"0", "1", "2", "3", "4", "5", "6", "7", "8", "9">>
IsDigit(c) == \E d \in 1..10 : DigitChars[d] = c
DigitVal(c) == (CHOOSE d \in 1..10 : DigitChars[d] = c) - 1

RECURSIVE Decimal(_)
Decimal(n) ==
    IF n < 10 THEN <<DigitChars[n + 1]>>
    ELSE Decimal(n \div 10) \o <<DigitChars[(n % 10) + 1]>>

RECURSIVE PadLeft(_, _)
PadLeft(s, w) == IF Len(s) >= w THEN s ELSE PadLeft(<<"0">> \o s, w)

\* FileTodoList::file_name: the base name of the task's file, {:05}
format_05(id) == PadLeft(Decimal(id), Width)

\* format_05 on the ids the bounds allow, computed once
FileNameOf == [id \in 0..(MaxId + 3) |-> format_05(id)]

file_name(id) == IF id \in DOMAIN FileNameOf THEN FileNameOf[id] ELSE format_05(id)

RECURSIVE ParseDigits(_, _)
ParseDigits(s, acc) ==
    IF s = <<>> THEN acc
    ELSE IF ~IsDigit(Head(s)) THEN NoId
    ELSE ParseDigits(Tail(s), 10 * acc + DigitVal(Head(s)))

\* str::parse::<usize>: an optional '+', then one or more decimal digits
parse_usize(s) ==
    LET body == IF s # <<>> /\ Head(s) = "+" THEN Tail(s) ELSE s
    IN  IF body = <<>> THEN NoId ELSE ParseDigits(body, 0)

\* parse_usize on the names file_name gives, computed once
ParsedOf == [n \in {FileNameOf[i] : i \in DOMAIN FileNameOf} |-> parse_usize(n)]

parse(s) == IF s \in DOMAIN ParsedOf THEN ParsedOf[s] ELSE parse_usize(s)

\* {:?} of Status (derive(Debug)): the variant's name
Debug(status) ==
    CASE status = "Open" -> <<"O", "p", "e", "n">>
      [] status = "Done" -> <<"D", "o", "n", "e">>
      [] status = "Wont" -> <<"W", "o", "n", "t">>

\* Status::from(&str); "panic" stands for panic!("Invalid status string")
StatusFrom(line) ==
    CASE line = <<"O", "p", "e", "n">> -> "Open"
      [] line = <<"D", "o", "n", "e">> -> "Done"
      [] line = <<"W", "o", "n", "t">> -> "Wont"
      [] OTHER -> "panic"

\* the pieces of s between line feeds (at least one piece)
RECURSIVE SplitNL(_, _, _)
SplitNL(s, cur, acc) ==
    IF s = <<>> THEN Append(acc, cur)
    ELSE IF Head(s) = NL THEN SplitNL(Tail(s), <<>>, Append(acc, cur))
    ELSE SplitNL(Tail(s), Append(cur, Head(s)), acc)

StripCR(l) ==
    IF l # <<>> /\ l[Len(l)] = CR THEN SubSeq(l, 1, Len(l) - 1) ELSE l

\* str::lines: split at "\n", no empty last line, a trailing "\r" dropped
Lines(s) ==
    LET parts == SplitNL(s, <<>>, <<>>)
        kept  == IF parts[Len(parts)] = <<>>
                 THEN SubSeq(parts, 1, Len(parts) - 1) ELSE parts
    IN  [i \in 1..Len(kept) |-> StripCR(kept[i])]

\* ------------------------------------------------------------ finite maps
Put(f, k, v) == [x \in DOMAIN f \cup {k} |-> IF x = k THEN v ELSE f[x]]
Del(f, k) == [x \in DOMAIN f \ {k} |-> f[x]]

RECURSIVE SortSet(_)
SortSet(S) ==
    IF S = {} THEN <<>>
    ELSE LET m == CHOOSE x \in S : \A y \in S : x <= y
         IN  <<m>> \o SortSet(S \ {m})

Max(S) == CHOOSE x \in S : \A y \in S : y <= x

\* ---------------------------------------------------------- status machine
\* goto_next_status going round the cycle: Done to Wont instead of failing
goto_next_status_cycle(t) ==
    CASE t.status = "Wont" -> [task |-> [t EXCEPT !.status = "Open"], err |-> "Ok"]
      [] t.status = "Open" -> [task |-> [t EXCEPT !.status = "Done"], err |-> "Ok"]
      [] t.status = "Done" -> [task |-> [t EXCEPT !.status = "Wont"], err |-> "Ok"]

\* BasicTask::goto_next_status of src/main.rs
goto_next_status(t) ==
    CASE t.status = "Wont" -> [task |-> [t EXCEPT !.status = "Open"], err |-> "Ok"]
      [] t.status = "Open" -> [task |-> [t EXCEPT !.status = "Done"], err |-> "Ok"]
      [] t.status = "Done" -> [task |-> t, err |-> "AlreadyDone"]

\* BasicTask::goto_next_back_status of src/main.rs
goto_next_back_status(t) ==
    CASE t.status = "Open" -> [task |-> [t EXCEPT !.status = "Wont"], err |-> "Ok"]
      [] t.status = "Done" -> [task |-> [t EXCEPT !.status = "Open"], err |-> "Ok"]
      [] t.status = "Wont" -> [task |-> t, err |-> "AlreadyWont"]

\* BasicTask::goto_next_status of src/core/mod.rs
core_goto_next_status(t) ==
    CASE t.status = "Wont" -> [task |-> [t EXCEPT !.status = "Open"], err |-> "Ok"]
      [] t.status = "Open" -> [task |-> [t EXCEPT !.status = "Done"], err |-> "Ok"]
      [] t.status = "Done" -> [task |-> t, err |-> "AlreadyDone"]

\* BasicTask::goto_next_back_status of src/core/mod.rs
core_goto_next_back_status(t) ==
    CASE t.status = "Open" -> [task |-> [t EXCEPT !.status = "Wont"], err |-> "Ok"]
      [] t.status = "Done" -> [task |-> [t EXCEPT !.status = "Open"], err |-> "Ok"]
      [] t.status = "Wont" -> [task |-> t, err |-> "AlreadyDone"]

\* the transition `dirn` ("next" or "back") of the BasicTask of backend bk
Transition(bk, dirn, t) ==
    CASE bk = "Core" /\ dirn = "next" -> core_goto_next_status(t)
      [] bk = "Core" /\ dirn = "back" -> core_goto_next_back_status(t)
      [] bk # "Core" /\ dirn = "next" -> goto_next_status(t)
      [] bk # "Core" /\ dirn = "back" -> goto_next_back_status(t)

\* ------------------------------------------------------------------ stores
\* A store value: the fields of FakeTodoList (tasks, next_id) and of
\* FileTodoList (cache, next_id), and the directory PATH.
Store == [tasks |-> tasks, cache |-> cache, dir |-> dir, next_id |-> next_id]

\* what an operation returns beside the store: err is "Ok", an Error variant
\* ("AlreadyDone", "AlreadyWont", "Io", "NoSuchTask") or "panic"
Ret(st, err, id, task) == [st |-> st, err |-> err, id |-> id, task |-> task]

IoOutcomes == {"ok", "fail"}
\* FileTodoList::remove: load (File::open, read_to_string), then remove_file
RemoveOutcomes == {"ok", "load_fail", "remove_fail"}
\* FileTodoList::new: DirBuilder::create, ids() twice, load per file
NewOutcomes == {"ok", "mkdir_fail", "scan_fail", "load_fail"}
\* FileTask::save makes two fallible calls: File::create, then write!
SaveOutcomes == {"ok", "create_fail", "write_fail"}

\* FileTask::save on directory d: "{}\n{:?}" of the name and the status
save(d, id, t, io) ==
    CASE io = "create_fail" -> [dir |-> d, err |-> "Io"]
      [] io = "write_fail"  -> [dir |-> Put(d, file_name(id), <<>>), err |-> "Io"]
      [] io = "ok" ->
           [dir |-> Put(d, file_name(id), t.name \o <<NL>> \o Debug(t.status)),
            err |-> "Ok"]

\* FileTodoList::load, from content.lines() on: assert_eq!(2, lines.len()),
\* then BasicTask { name: lines[0], status: Status::from(lines[1]) }
load_lines(lines) ==
    IF Len(lines) # 2 THEN [err |-> "panic", task |-> NoTask]
    ELSE IF StatusFrom(lines[2]) = "panic" THEN [err |-> "panic", task |-> NoTask]
    ELSE [err |-> "Ok", task |-> [name |-> lines[1], status |-> StatusFrom(lines[2])]]

\* FileTodoList::load: File::open and read_to_string fail with an io::Error
load(d, id, io) ==
    IF io = "fail" \/ file_name(id) \notin DOMAIN d
    THEN [err |-> "Io", task |-> NoTask]
    ELSE load_lines(Lines(d[file_name(id)]))

\* fn ids(): the names of the directory that parse, sorted (a bag: two names
\* may parse to the same number)
RECURSIVE SortNames(_)
SortNames(S) ==
    IF S = {} THEN <<>>
    ELSE LET m == CHOOSE n \in S : \A k \in S : parse(n) <= parse(k)
         IN  <<parse(m)>> \o SortNames(S \ {m})

ids(d) == SortNames({n \in DOMAIN d : parse(n) # NoId})

Item(id) == [ok |-> TRUE, id |-> id]
ErrItem == [ok |-> FALSE, id |-> NoId]

Items(found) == [i \in 1..Len(found) |-> Item(found[i])]

\* FakeTodoList::ids / FileTodoList::ids: the items of the iterator
ids_iter(bk, st, ioScan) ==
    IF bk = "File"
    THEN IF ioScan = "fail" THEN <<ErrItem>> ELSE Items(ids(st.dir))
    ELSE Items(SortSet(DOMAIN st.tasks))

\* create taking the number of tasks held as the id, not a counter
Fake_create_count(st, name) ==
    LET id == Cardinality(DOMAIN st.tasks)
        new_task == [name |-> name, status |-> "Open"]
    IN  Ret([st EXCEPT !.next_id = id + 1, !.tasks = Put(st.tasks, id, new_task)],
            "Ok", id, new_task)

\* FakeTodoList::create
Fake_create(st, name) ==
    LET id == st.next_id
        new_task == [name |-> name, status |-> "Open"]
    IN  Ret([st EXCEPT !.next_id = id + 1, !.tasks = Put(st.tasks, id, new_task)],
            "Ok", id, new_task)

\* create putting the task in the cache whether or not its file was written
File_create_saved_cached(st, id, inner, saved) ==
    Ret([st EXCEPT !.next_id = id + 1, !.dir = saved.dir,
                   !.cache = Put(st.cache, id, inner)],
        IF saved.err # "Ok" THEN "Io" ELSE "Ok",
        IF saved.err # "Ok" THEN NoId ELSE id,
        IF saved.err # "Ok" THEN NoTask ELSE inner)

\* FileTodoList::create after FileTask::new returned: `?`, cache.insert
File_create_saved(st, id, inner, saved) ==
    IF saved.err # "Ok"
    THEN Ret([st EXCEPT !.next_id = id + 1, !.dir = saved.dir], "Io", NoId, NoTask)
    ELSE Ret([st EXCEPT !.next_id = id + 1, !.dir = saved.dir,
                        !.cache = Put(st.cache, id, inner)],
             IF id \in DOMAIN st.cache THEN "panic" ELSE "Ok",
             IF id \in DOMAIN st.cache THEN NoId ELSE id,
             IF id \in DOMAIN st.cache THEN NoTask ELSE inner)

File_create_task(st, inner, ioSave) ==
    File_create_saved(st, st.next_id, inner, save(st.dir, st.next_id, inner, ioSave))

\* FileTodoList::create
File_create(st, name, ioSave) ==
    File_create_task(st, [name |-> name, status |-> "Open"], ioSave)

\* FakeTodoList::remove
Fake_remove(st, id) ==
    IF id \in DOMAIN st.tasks
    THEN Ret([st EXCEPT !.tasks = Del(st.tasks, id)], "Ok", id, st.tasks[id])
    ELSE Ret(st, "NoSuchTask", id, NoTask)

\* FileTodoList::remove after load(id) returned: `?`, fs::remove_file
File_remove_loaded(st, id, loaded, io) ==
    IF loaded.err # "Ok" THEN Ret(st, loaded.err, id, NoTask)
    ELSE IF io = "remove_fail" THEN Ret(st, "Io", id, NoTask)
    ELSE Ret([st EXCEPT !.dir = Del(st.dir, file_name(id))], "Ok", id, loaded.task)

\* FileTodoList::remove; io names the call that fails, if one does
File_remove(st, id, io) ==
    File_remove_loaded(st, id,
        load(st.dir, id, IF io = "load_fail" THEN "fail" ELSE "ok"), io)

\* FakeTodoList::find and find_mut: VecMap's Index panics on an absent key
Fake_find(st, id) ==
    IF id \in DOMAIN st.tasks THEN Ret(st, "Ok", id, st.tasks[id])
    ELSE Ret(st, "panic", id, NoTask)

\* FileTodoList::find: HashMap's Index panics on an absent key
File_find(st, id) ==
    IF id \in DOMAIN st.cache THEN Ret(st, "Ok", id, st.cache[id])
    ELSE Ret(st, "panic", id, NoTask)

\* FileTodoList::find_mut
File_find_mut(st, id) ==
    IF id \in DOMAIN st.cache THEN Ret(st, "Ok", id, st.cache[id])
    ELSE Ret(st, "NoSuchTask", id, NoTask)

\* find_mut(id)? followed by goto_next_status / goto_next_back_status on the
\* task found: BasicTask's for the fakes, FileTask's (the inner transition,
\* then save) for FileTodoList
Fake_moved(st, id, moved) ==
    Ret([st EXCEPT !.tasks = Put(st.tasks, id, moved.task)], moved.err, id, moved.task)

Fake_apply(bk, st, id, dirn) ==
    IF id \in DOMAIN st.tasks THEN Fake_moved(st, id, Transition(bk, dirn, st.tasks[id]))
    ELSE Fake_find(st, id)

\* a transition taken back when the save fails
FileTask_saved_undone(st, id, t, saved) ==
    IF saved.err # "Ok" THEN Ret([st EXCEPT !.dir = saved.dir], saved.err, id, st.cache[id])
    ELSE Ret([st EXCEPT !.cache = Put(st.cache, id, t), !.dir = saved.dir], "Ok", id, t)

\* FileTask::goto_next_status / goto_next_back_status after save returned
FileTask_saved(st, id, t, saved) ==
    Ret([st EXCEPT !.cache = Put(st.cache, id, t), !.dir = saved.dir], saved.err, id, t)

\* FileTask::goto_next_status / goto_next_back_status, the inner task moved
FileTask_moved(st, id, moved, ioSave) ==
    IF moved.err # "Ok" THEN Ret(st, moved.err, id, moved.task)
    ELSE FileTask_saved(st, id, moved.task, save(st.dir, id, moved.task, ioSave))

File_apply(st, id, dirn, ioSave) ==
    IF id \in DOMAIN st.cache
    THEN FileTask_moved(st, id, Transition("File", dirn, st.cache[id]), ioSave)
    ELSE File_find_mut(st, id)

\* load_all's loop over found, loads[i] what load(found[i]) returns: the
\* first iteration to go wrong ends it (`?` on an Err, a panic of load, or
\* the panic of cache.insert returning Some(_))
load_all(st0, found, loads) ==
    LET bad == {i \in 1..Len(found) : loads[i].err # "Ok"}
        dup == {j \in 1..Len(found) : \E i \in 1..(j - 1) : found[i] = found[j]}
        wrong == bad \cup dup
        k == CHOOSE i \in wrong : \A j \in wrong : i <= j
    IN  IF wrong # {}
        THEN Ret(st0, IF k \in bad THEN loads[k].err ELSE "panic", NoId, NoTask)
        ELSE Ret([st0 EXCEPT !.cache =
                     [id \in {found[i] : i \in 1..Len(found)} |->
                        loads[CHOOSE i \in 1..Len(found) : found[i] = id].task]],
                 "Ok", NoId, NoTask)

\* new starting next_id afresh, whatever the directory holds
File_new_found_afresh(d, found, io) ==
    load_all([tasks |-> EmptyMap, cache |-> EmptyMap, dir |-> d,
              next_id |-> NoMaxDefault + 1],
             found,
             [i \in 1..Len(found) |->
                load(d, found[i], IF io = "load_fail" THEN "fail" ELSE "ok")])

\* FileTodoList::new once ids() returned found: next_id, then load_all
File_new_found(d, found, io) ==
    load_all([tasks |-> EmptyMap, cache |-> EmptyMap, dir |-> d,
              next_id |-> IF found = <<>> THEN NoMaxDefault + 1
                          ELSE Max({found[i] : i \in 1..Len(found)}) + 1],
             found,
             [i \in 1..Len(found) |->
                load(d, found[i], IF io = "load_fail" THEN "fail" ELSE "ok")])

\* FileTodoList::new on directory d; io names the call that fails, if one
\* does: DirBuilder::create(PATH).unwrap(), one of the two ids()? calls, or
\* the File::open / read_to_string of load
File_new(d, io) ==
    CASE io = "mkdir_fail" ->
           Ret([tasks |-> EmptyMap, cache |-> EmptyMap, dir |-> d, next_id |-> 0],
               "panic", NoId, NoTask)
      [] io = "scan_fail" ->
           Ret([tasks |-> EmptyMap, cache |-> EmptyMap, dir |-> d, next_id |-> 0],
               "Io", NoId, NoTask)
      [] OTHER -> File_new_found(d, ids(d), io)

\* ------------------------------------------- the TodoList trait's methods
\* of the implementation bk: "Fake" (FakeTodoList of src/main.rs), "Core"
\* (FakeTodoList of src/core/mod.rs, the same code) or "File" (FileTodoList)
TodoList_create(bk, st, name, ioSave) ==
    IF bk = "File" THEN File_create(st, name, ioSave) ELSE Fake_create(st, name)

TodoList_remove(bk, st, id, io) ==
    IF bk = "File" THEN File_remove(st, id, io) ELSE Fake_remove(st, id)

TodoList_find(bk, st, id) ==
    IF bk = "File" THEN File_find(st, id) ELSE Fake_find(st, id)

TodoList_find_mut(bk, st, id) ==
    IF bk = "File" THEN File_find_mut(st, id) ELSE Fake_find(st, id)

\* find_mut(id)?.goto_next_status() ("next") or .goto_next_back_status()
Task_apply(bk, st, id, dirn, ioSave) ==
    IF bk = "File" THEN File_apply(st, id, dirn, ioSave)
    ELSE Fake_apply(bk, st, id, dirn)

\* the tasks the store holds in memory
Held(bk, st) == IF bk = "File" THEN st.cache ELSE st.tasks

\* ----------------------------------------------------------------- state
\* The state after construction: FakeTodoList::new(), or FileTodoList::new()
\* on a directory that holds nothing yet; TaskPicker { position: 0, .. }.
InitStore(bk) ==
    /\ backend = bk
    /\ position = 0
    /\ tasks = EmptyMap
    /\ cache = EmptyMap
    /\ dir = EmptyMap
    /\ next_id = IF bk = "File" THEN NoMaxDefault + 1 ELSE FakeFirstId
    /\ crashed = FALSE
    /\ last = [op |-> "new", err |-> "Ok", id |-> NoId]
    /\ maxInst = NoId
    /\ maxEver = NoId
    /\ order = <<>>
    /\ removed = {}

Without(seq, id) == SelectSeq(seq, LAMBDA x : x # id)

\* The new state after an operation named op returned r, the cursor at pos.
\* kind says which store operation r comes from ("create", "remove", or
\* "other").  A panic ends the process: what it held in memory is gone, the
\* directory stays.  The last four variables follow the history of the calls:
\*   maxInst  the greatest id create has returned on this instance
\*   maxEver  the greatest id create has returned on this directory
\*   order    the ids created and not removed since, in order of creation
\*   removed  the ids remove has returned Ok for on this instance
Commit(op, kind, r, pos) ==
    LET dead == r.err = "panic"
        made == kind = "create" /\ r.err = "Ok"
    IN  /\ tasks' = IF dead THEN EmptyMap ELSE r.st.tasks
        /\ cache' = IF dead THEN EmptyMap ELSE r.st.cache
        /\ dir' = r.st.dir
        /\ next_id' = IF dead THEN 0 ELSE r.st.next_id
        /\ position' = IF dead THEN 0 ELSE pos
        /\ crashed' = dead
        /\ last' = [op |-> op, err |-> r.err, id |-> r.id]
        /\ maxInst' = CASE dead -> NoId
                        [] made /\ r.id > maxInst -> r.id
                        [] OTHER -> maxInst
        /\ maxEver' = IF made /\ r.id > maxEver THEN r.id ELSE maxEver
        /\ order' = CASE made -> Append(Without(order, r.id), r.id)
                      [] kind = "remove" /\ r.err = "Ok" -> Without(order, r.id)
                      [] OTHER -> order
        /\ removed' = CASE dead -> {}
                        [] kind = "remove" /\ r.err = "Ok" -> removed \cup {r.id}
                        [] OTHER -> removed
        /\ UNCHANGED backend

\* ---------------------------------------------------- the TodoList interface
Ids == 0..(MaxId + 1)

StoreCreate ==
    /\ ~crashed /\ next_id <= MaxId
    /\ \E name \in Names, ioSave \in SaveOutcomes :
         Commit("create", "create", TodoList_create(backend, Store, name, ioSave), position)

StoreRemove ==
    /\ ~crashed
    /\ \E id \in Ids, io \in RemoveOutcomes :
         Commit("remove", "remove", TodoList_remove(backend, Store, id, io), position)

StoreFind ==
    /\ ~crashed
    /\ \E id \in Ids : Commit("find", "other", TodoList_find(backend, Store, id), position)

StoreFindMut ==
    /\ ~crashed
    /\ \E id \in Ids :
         Commit("find_mut", "other", TodoList_find_mut(backend, Store, id), position)

\* find_mut(id) and a transition of the task it returns
StoreApply ==
    /\ ~crashed
    /\ \E id \in Ids, dirn \in {"next", "back"}, ioSave \in SaveOutcomes :
         Commit(dirn, "other", Task_apply(backend, Store, id, dirn, ioSave), position)

Started(r) ==
    /\ tasks' = EmptyMap
    /\ cache' = IF r.err # "Ok" THEN EmptyMap ELSE r.st.cache
    /\ dir' = r.st.dir
    /\ next_id' = IF r.err # "Ok" THEN 0 ELSE r.st.next_id
    /\ position' = 0
    /\ crashed' = (r.err # "Ok")
    /\ last' = [op |-> "new", err |-> r.err, id |-> NoId]
    /\ maxInst' = NoId
    /\ removed' = {}
    /\ UNCHANGED <<backend, maxEver, order>>

\* A new process on the same directory: main() builds FileTodoList::new()
\* and a TaskPicker at position 0.  A failure of new() ends the process
\* (main unwraps it).
Restart ==
    /\ backend = "File"
    /\ \E io \in NewOutcomes : Started(File_new(dir, io))

InitAPI == \E bk \in {"Fake", "File", "Core"} : InitStore(bk)

NextAPI ==
    \/ StoreCreate
    \/ StoreRemove
    \/ StoreFind
    \/ StoreFindMut
    \/ StoreApply
    \/ Restart

\* The stores called through the TodoList trait
SpecAPI == InitAPI /\ [][NextAPI]_vars

\* ------------------------------------------ a directory found at startup
\* names a directory entry can have: one that does not parse, one that
\* parses but is not of the form file_name gives, and two that file_name gives
DirNames == {<<"x">>, <<"1">>, FileNameOf[1], FileNameOf[2]}
\* what FileTask::save writes for an Open task named "a"
GoodFile == <<"a", NL>> \o Debug("Open")
Dirs == UNION {[S -> {GoodFile}] : S \in SUBSET DirNames}

\* No process yet, and any of the directories Dirs at PATH
InitDir ==
    /\ backend = "File"
    /\ position = 0
    /\ tasks = EmptyMap
    /\ cache = EmptyMap
    /\ dir \in Dirs
    /\ next_id = 0
    /\ crashed = TRUE
    /\ last = [op |-> "none", err |-> "Ok", id |-> NoId]
    /\ maxInst = NoId
    /\ maxEver = NoId
    /\ order = <<>>
    /\ removed = {}

NextDir ==
    \/ Restart
    \/ StoreCreate
    \/ StoreRemove

\* FileTodoList::new on a directory it finds, then creates and removes
SpecDir == InitDir /\ [][NextDir]_vars

\* ------------------------------------------------------------- TaskPicker
\* What a TaskPicker method leaves: the position and what it returned.
Picked(pos, r) == [pos |-> pos, r |-> r]
Plain(st, err) == Ret(st, err, NoId, NoTask)

None == [ok |-> FALSE, id |-> NoId - 1]
\* Iterator::nth on the items of ids()
nth(items, n) == IF n + 1 <= Len(items) THEN items[n + 1] ELSE None

\* TaskPicker::len: the number of items of ids(), an Err item counted
len(bk, st, ioScan) == Len(ids_iter(bk, st, ioScan))

\* TaskPicker::top
TaskPicker_top(pos, st) == Picked(0, Plain(st, "Ok"))

\* TaskPicker::bottom, len()? returned n
bottom_len(pos, st, n) ==
    IF n = 0 THEN Picked(pos, Plain(st, "NoSuchTask"))
    ELSE Picked(n - 1, Plain(st, "Ok"))

TaskPicker_bottom(bk, pos, st, ioScan) == bottom_len(pos, st, len(bk, st, ioScan))

\* TaskPicker::down, len()? returned n
down_len(pos, st, n) ==
    IF n # 0 /\ n - 1 # pos THEN Picked(pos + 1, Plain(st, "Ok"))
    ELSE Picked(pos, Plain(st, "Ok"))

TaskPicker_down(bk, pos, st, ioScan) == down_len(pos, st, len(bk, st, ioScan))

\* TaskPicker::up
TaskPicker_up(pos, st) ==
    IF pos # 0 THEN Picked(pos - 1, Plain(st, "Ok")) ELSE Picked(pos, Plain(st, "Ok"))

\* right / left going to the first task, whatever the position
current_id_first(bk, pos, st, ioScan) ==
    nth(ids_iter(bk, st, ioScan), 0)

\* TaskPicker::current_id: ids().nth(position), None is NoSuchTask
current_id(bk, pos, st, ioScan) ==
    nth(ids_iter(bk, st, ioScan), pos)

\* TaskPicker::right / left once current_id() returned item
turn_item(bk, pos, st, item, dirn, ioSave) ==
    CASE item = None -> Picked(pos, Plain(st, "NoSuchTask"))
      [] item = ErrItem -> Picked(pos, Plain(st, "Io"))
      [] OTHER -> Picked(pos, Task_apply(bk, st, item.id, dirn, ioSave))

\* TaskPicker::right
TaskPicker_right(bk, pos, st, ioScan, ioSave) ==
    turn_item(bk, pos, st, current_id(bk, pos, st, ioScan), "next", ioSave)

\* TaskPicker::left
TaskPicker_left(bk, pos, st, ioScan, ioSave) ==
    turn_item(bk, pos, st, current_id(bk, pos, st, ioScan), "back", ioSave)

\* create leaving the position where it was
scan_for_keep(items, new_id, pos) == pos

\* the loop of TaskPicker::create: the last p whose item is Ok(new_id)
scan_for(items, new_id, pos) ==
    IF \E p \in 1..Len(items) : items[p] = Item(new_id)
    THEN Max({p \in 1..Len(items) : items[p] = Item(new_id)}) - 1
    ELSE pos

\* TaskPicker::create once tasks.create(&name) returned r
create_made(bk, pos, r, ioScan) ==
    IF r.err # "Ok" THEN Picked(pos, r)
    ELSE Picked(scan_for(ids_iter(bk, r.st, ioScan), r.id, pos), r)

\* TaskPicker::create
TaskPicker_create(bk, pos, st, name, ioSave, ioScan) ==
    create_made(bk, pos, TodoList_create(bk, st, name, ioSave), ioScan)

\* TaskPicker::remove once ids().nth(position) returned item and len()? n;
\* n - 1 on n = 0 overflows (a panic of the debug build)
remove_item(bk, pos, st, item, n, io) ==
    CASE item = None -> Picked(pos, Plain(st, "NoSuchTask"))
      [] item = ErrItem -> Picked(pos, Plain(st, "Io"))
      [] n = 0 -> Picked(pos, Plain(st, "panic"))
      [] OTHER ->
           Picked(IF pos >= n - 1 /\ n - 1 > 0 THEN n - 1 - 1 ELSE pos,
                  TodoList_remove(bk, st, item.id, io))

\* TaskPicker::remove
TaskPicker_remove(bk, pos, st, ioScan1, ioScan2, io) ==
    remove_item(bk, pos, st, nth(ids_iter(bk, st, ioScan1), pos),
                len(bk, st, ioScan2), io)

\* ------------------------------------------------------------- the listing
\* Display for Status: the marker of the status
Display_Status(status) ==
    CASE status = "Open" ->
           <<" ", " ", " ", " ", " ", "[", " ", "]", " ", " ", " ", " ", " ", " ">>
      [] status = "Done" ->
           <<" ", " ", " ", " ", " ", " ", " ", " ", " ", " ", " ", "[", "x", "]">>
      [] status = "Wont" ->
           <<"-", "-", "-", "-", " ", " ", " ", " ", " ", " ", " ", " ", " ", " ">>

\* a task written name first, the marker of its status after it
Display_BasicTask_name_first(t) == t.name \o <<" ">> \o Display_Status(t.status)

\* Display for BasicTask: "{} {}" of the status and the name
Display_BasicTask(t) == Display_Status(t.status) \o <<" ">> \o t.name

\* the legend of Display for TaskPicker
Legend ==
    <<" ", " ", "W", "o", "n", "t", " ", "O", "p", "e", "n", " ", "D", "o", "n", "e">>

\* [T]::join
RECURSIVE join(_, _)
join(strings, sep) ==
    IF strings = <<>> THEN <<>>
    ELSE IF Len(strings) = 1 THEN strings[1]
    ELSE strings[1] \o sep \o join(Tail(strings), sep)

\* Display for TaskPicker, current_id: ids().nth(position), 0 when there is
\* no such item or the item is an Err
fmt_current_id(item) == IF item.ok THEN item.id ELSE 0

\* Display for TaskPicker, the string of one task
fmt_string(id, cur, t) ==
    (IF id = cur THEN <<">">> ELSE <<" ">>) \o <<" ">> \o Display_BasicTask(t)

\* Display for TaskPicker once current_id is known and enumerate() gave
\* items: an Err item is dropped, FileTodoList::enumerate panics on an id
\* the cache does not hold
fmt_items(held, cur, items) ==
    IF \E i \in 1..Len(items) : items[i].ok /\ items[i].id \notin DOMAIN held
    THEN [err |-> "panic", text |-> <<>>]
    ELSE [err |-> "Ok",
          text |-> Legend \o <<NL>> \o
                   join([i \in 1..Len(SelectSeq(items, LAMBDA it : it.ok)) |->
                           fmt_string(SelectSeq(items, LAMBDA it : it.ok)[i].id, cur,
                                      held[SelectSeq(items, LAMBDA it : it.ok)[i].id])],
                        <<NL>>)]

\* Display for TaskPicker
fmt(bk, pos, st, ioScan1, ioScan2) ==
    fmt_items(Held(bk, st),
              fmt_current_id(nth(ids_iter(bk, st, ioScan1), pos)),
              ids_iter(bk, st, ioScan2))

\* ----------------------------------------------------- the picker's commands
Step(op, kind, res) == Commit(op, kind, res.r, res.pos)

Top == ~crashed /\ Step("top", "other", TaskPicker_top(position, Store))

Bottom ==
    /\ ~crashed
    /\ \E ioScan \in IoOutcomes :
         Step("bottom", "other", TaskPicker_bottom(backend, position, Store, ioScan))

Down ==
    /\ ~crashed /\ position <= MaxPos
    /\ \E ioScan \in IoOutcomes :
         Step("down", "other", TaskPicker_down(backend, position, Store, ioScan))

Up == ~crashed /\ Step("up", "other", TaskPicker_up(position, Store))

Right ==
    /\ ~crashed
    /\ \E ioScan \in IoOutcomes, ioSave \in SaveOutcomes :
         Step("right", "other",
              TaskPicker_right(backend, position, Store, ioScan, ioSave))

Left ==
    /\ ~crashed
    /\ \E ioScan \in IoOutcomes, ioSave \in SaveOutcomes :
         Step("left", "other",
              TaskPicker_left(backend, position, Store, ioScan, ioSave))

Create ==
    /\ ~crashed /\ next_id <= MaxId
    /\ \E name \in Names, ioSave \in SaveOutcomes, ioScan \in IoOutcomes :
         Step("create", "create",
              TaskPicker_create(backend, position, Store, name, ioSave, ioScan))

Remove ==
    /\ ~crashed
    /\ \E ioScan1 \in IoOutcomes, ioScan2 \in IoOutcomes, io \in RemoveOutcomes :
         Step("remove", "remove",
              TaskPicker_remove(backend, position, Store, ioScan1, ioScan2, io))

\* gui prints the picker before the first command and after each one
Show ==
    /\ ~crashed
    /\ \E ioScan1 \in IoOutcomes, ioScan2 \in IoOutcomes :
         Step("show", "other",
              Picked(position,
                     Plain(Store, fmt(backend, position, Store, ioScan1, ioScan2).err)))

Init == \E bk \in {"Fake", "File"} : InitStore(bk)

Next ==
    \/ Top
    \/ Bottom
    \/ Down
    \/ Up
    \/ Right
    \/ Left
    \/ Create
    \/ Remove
    \/ Show
    \/ Restart

\* The program: a TaskPicker over a store, driven by the commands of gui()
Spec == Init /\ [][Next]_vars

\* ------------------------------------------------------------------ claims
Range(seq) == {seq[i] : i \in 1..Len(seq)}
\* the ids the store enumerates when the scan of the directory succeeds
Enumerated == ids_iter(backend, Store, "ok")
Backends == {"Fake", "File", "Core"}

\* C1: after every TaskPicker operation the position is below the number of
\* tasks of a non-empty store, and 0 when the store is empty.
C1_PositionValid ==
    ~crashed =>
        /\ Len(Enumerated) > 0 => position < Len(Enumerated)
        /\ Len(Enumerated) = 0 => position = 0

\* C2: in every implementation of BasicTask, advance takes Wont to Open and
\* Open to Done, and from Done fails with AlreadyDone leaving Done; from Open
\* the first call gives Done and every later call fails with AlreadyDone.
AdvanceTwice(bk, t) == Transition(bk, "next", Transition(bk, "next", t).task)
AdvanceThrice(bk, t) == Transition(bk, "next", AdvanceTwice(bk, t).task)

C2_Advance ==
    \A bk \in Backends : \A id \in DOMAIN Held(backend, Store) :
        LET t == Held(backend, Store)[id]
            r == Transition(bk, "next", t)
        IN  /\ t.status = "Wont" => r = [task |-> [t EXCEPT !.status = "Open"], err |-> "Ok"]
            /\ t.status = "Open" => r = [task |-> [t EXCEPT !.status = "Done"], err |-> "Ok"]
            /\ t.status = "Done" => r = [task |-> t, err |-> "AlreadyDone"]
            /\ t.status = "Open" =>
                 /\ AdvanceTwice(bk, t) = [task |-> r.task, err |-> "AlreadyDone"]
                 /\ AdvanceThrice(bk, t) = [task |-> r.task, err |-> "AlreadyDone"]

\* a task is Done and the advance just applied to the store failed
C2_Witness ==
    /\ last.op = "next" /\ last.err = "AlreadyDone"
    /\ last.id \in DOMAIN Held(backend, Store)
    /\ Held(backend, Store)[last.id].status = "Done"

\* C3: in every implementation of BasicTask, retreat takes Open to Wont and
\* Done to Open, and from Wont fails with AlreadyWont leaving Wont.
C3_Retreat ==
    \A bk \in Backends : \A id \in DOMAIN Held(backend, Store) :
        LET t == Held(backend, Store)[id]
            r == Transition(bk, "back", t)
        IN  /\ t.status = "Open" => r = [task |-> [t EXCEPT !.status = "Wont"], err |-> "Ok"]
            /\ t.status = "Done" => r = [task |-> [t EXCEPT !.status = "Open"], err |-> "Ok"]
            /\ t.status = "Wont" => r = [task |-> t, err |-> "AlreadyWont"]

\* C4: on one store instance every successful create returns an id greater
\* than every id create returned before on it, and stores under that id a
\* task with the given name and status Open.
C4_CreateFresh ==
    ~crashed =>
        \A name \in Names, ioSave \in SaveOutcomes :
            LET r == TodoList_create(backend, Store, name, ioSave)
            IN  r.err = "Ok" =>
                  /\ r.id > maxInst
                  /\ r.id \in DOMAIN Held(backend, r.st)
                  /\ Held(backend, r.st)[r.id] = [name |-> name, status |-> "Open"]
                  /\ Item(r.id) \in Range(ids_iter(backend, r.st, "ok"))

\* a create has just returned an id on a fake store from which a task
\* created earlier was removed
C4_Witness ==
    /\ backend = "Fake"
    /\ last = [op |-> "create", err |-> "Ok", id |-> maxInst]
    /\ maxInst \in DOMAIN tasks
    /\ \E i \in 0..maxInst : i \notin DOMAIN tasks

\* C5 as claimed: on the file-backed store an id returned by create is
\* greater than every id any earlier create returned on that directory,
\* restarts included.
C5_NeverReused ==
    (backend = "File" /\ ~crashed) =>
        \A name \in Names, ioSave \in SaveOutcomes :
            LET r == TodoList_create(backend, Store, name, ioSave)
            IN  r.err = "Ok" => r.id > maxEver

\* C5 as amended: on the file-backed store an id returned by create is
\* greater than every id create returned before on the same instance and
\* than every id that has a file in the directory when create is called.
C5_FreshOnDisk ==
    (backend = "File" /\ ~crashed) =>
        \A name \in Names, ioSave \in SaveOutcomes :
            LET r == TodoList_create(backend, Store, name, ioSave)
            IN  r.err = "Ok" =>
                  /\ r.id > maxInst
                  /\ \A n \in DOMAIN dir : parse(n) < r.id

\* a create has just returned an id below one that an earlier process
\* issued on the directory
C5_Witness ==
    /\ backend = "File"
    /\ last = [op |-> "create", err |-> "Ok", id |-> maxInst]
    /\ maxInst < maxEver

\* C6: enumerate() and ids() return the live ids in strictly ascending
\* order, the order of creation, as many as creates succeeded minus removes.
C6_Enumerate ==
    ~crashed =>
        /\ Enumerated = Items(order)
        /\ \A i, j \in 1..Len(order) : i < j => order[i] < order[j]

\* C7: find(id) and find_mut(id) on an id that is not in the store return
\* the error NoSuchTask.
C7_FindAbsent ==
    (last.op \in {"find", "find_mut"} /\ last.id \notin Range(order)) =>
        last.err = "NoSuchTask"

\* C8: remove(id) on a present id deletes the task and returns it as the
\* store held it; on an absent id it fails with NoSuchTask and leaves the
\* store unchanged (no filesystem call failing).
C8_Remove ==
    ~crashed =>
        \A id \in Ids :
            LET r == TodoList_remove(backend, Store, id, "ok")
            IN  IF id \in Range(order) /\ id \in DOMAIN Held(backend, Store)
                THEN r.err = "Ok" =>
                       /\ r.task = Held(backend, Store)[id]
                       /\ Item(id) \notin Range(ids_iter(backend, r.st, "ok"))
                ELSE id \notin Range(order) =>
                       /\ r.err = "NoSuchTask"
                       /\ r.st = Store

\* C9: once remove(id) succeeded, no operation on that instance makes id
\* appear in enumerate() again, nor recreates its file.
C9_Permanent ==
    ~crashed =>
        \A id \in removed :
            /\ Item(id) \notin Range(Enumerated)
            /\ backend = "File" => file_name(id) \notin DOMAIN dir

\* C10: for the file backend, after every successful create, status
\* transition or remove the cache holds exactly the ids of the task files,
\* each with the name and status its file holds.
C10_Lockstep ==
    ( /\ backend = "File"
      /\ ~crashed
      /\ last.err = "Ok"
      /\ last.op \in {"create", "remove", "next", "back"} ) =>
        /\ DOMAIN cache = Range(ids(dir))
        /\ \A id \in DOMAIN cache :
             load(dir, id, "ok") = [err |-> "Ok", task |-> cache[id]]

\* the item at rank position of the enumeration, None when there is none
AtCursor == nth(Enumerated, position)
\* the scan of the directory gave the ids (the fake stores scan nothing)
Scanned(ioScan) == backend # "File" \/ ioScan = "ok"
Least(a, b) == IF a <= b THEN a ELSE b
Greatest(a, b) == IF a >= b THEN a ELSE b

RemoveDone(res, cur, after) ==
    res.r.err = "Ok" =>
        /\ cur # None
        /\ res.r.id = cur.id
        /\ after = SelectSeq(Enumerated, LAMBDA it : it # cur)
        /\ res.pos = IF Len(after) = 0 THEN 0
                     ELSE IF position = Len(Enumerated) - 1 THEN Len(after) - 1
                     ELSE position

\* C11: TaskPicker::remove on a non-empty store removes the task at rank
\* position and no other; position then is the last rank of the new list if
\* the task was the last one, 0 if the list is empty, unchanged otherwise;
\* on an empty store it fails with NoSuchTask.
C11_Remove ==
    ~crashed =>
        \A s1 \in IoOutcomes, s2 \in IoOutcomes, io \in RemoveOutcomes :
            /\ (Len(Enumerated) = 0 /\ Scanned(s1)) =>
                   TaskPicker_remove(backend, position, Store, s1, s2, io)
                       = Picked(position, Plain(Store, "NoSuchTask"))
            /\ RemoveDone(TaskPicker_remove(backend, position, Store, s1, s2, io),
                          AtCursor,
                          ids_iter(backend,
                                   TaskPicker_remove(backend, position, Store, s1, s2, io).r.st,
                                   "ok"))

CreateRanked(res, after) ==
    /\ res.pos + 1 <= Len(after)
    /\ after[res.pos + 1] = Item(res.r.id)
    /\ res.pos = Len(after) - 1

Turned(bk, dirn, res, cur, held, ioScan, ioSave) ==
    /\ res.pos = position
    /\ (Len(Enumerated) = 0 /\ Scanned(ioScan)) => res.r.err = "NoSuchTask"
    /\ DOMAIN Held(bk, res.r.st) = DOMAIN held
    /\ \A id \in DOMAIN held :
         (cur = None \/ id # cur.id) => Held(bk, res.r.st)[id] = held[id]
    /\ res.r.err = "Ok" =>
         /\ cur # None
         /\ cur.id \in DOMAIN held
         /\ Transition(bk, dirn, held[cur.id]).err = "Ok"
         /\ Held(bk, res.r.st)[cur.id] = Transition(bk, dirn, held[cur.id]).task
    /\ (Scanned(ioScan) /\ cur # None /\ cur.id \in DOMAIN held) =>
         IF Transition(bk, dirn, held[cur.id]).err = "Ok"
         THEN ioSave = "ok" => res.r.err = "Ok"
         ELSE /\ res.r.err = (IF dirn = "next" THEN "AlreadyDone" ELSE "AlreadyWont")
              /\ res.r.st = Store

\* C13: TaskPicker::right / left apply advance / retreat to the task at rank
\* position and to no other; an illegal transition returns AlreadyDone
\* (right) or AlreadyWont (left) and changes neither position nor any task;
\* on an empty store they fail with NoSuchTask.
C13_Turn ==
    ~crashed =>
        \A ioScan \in IoOutcomes, ioSave \in SaveOutcomes :
            /\ Turned(backend, "next",
                      TaskPicker_right(backend, position, Store, ioScan, ioSave),
                      AtCursor, Held(backend, Store), ioScan, ioSave)
            /\ Turned(backend, "back",
                      TaskPicker_left(backend, position, Store, ioScan, ioSave),
                      AtCursor, Held(backend, Store), ioScan, ioSave)

\* left has just failed with AlreadyWont on the second task of the store
C13_Witness ==
    /\ ~crashed
    /\ Len(Enumerated) >= 2
    /\ last = [op |-> "left", err |-> "AlreadyWont", id |-> Enumerated[2].id]
    /\ position = 1
    /\ Held(backend, Store)[Enumerated[2].id].status = "Wont"
    /\ Held(backend, Store)[Enumerated[1].id].status # "Wont"

\* C14: TaskPicker::bottom sets position to len - 1 on a non-empty store and
\* fails with NoSuchTask, position unchanged, on an empty one;
\* TaskPicker::top always succeeds and sets position to 0.
C14_BottomTop ==
    ~crashed =>
        /\ TaskPicker_top(position, Store) = Picked(0, Plain(Store, "Ok"))
        /\ \A ioScan \in IoOutcomes :
             TaskPicker_bottom(backend, position, Store, ioScan) =
                 IF Len(Enumerated) = 0
                 THEN Picked(position, Plain(Store, "NoSuchTask"))
                 ELSE Picked(Len(Enumerated) - 1, Plain(Store, "Ok"))

\* C15: TaskPicker::down sets position to min(position + 1, len - 1) and up
\* to max(position - 1, 0); both succeed, and change nothing at their
\* boundary and on an empty store.
C15_DownUp ==
    ~crashed =>
        /\ TaskPicker_up(position, Store) =
               Picked(Greatest(position - 1, 0), Plain(Store, "Ok"))
        /\ \A ioScan \in IoOutcomes :
             TaskPicker_down(backend, position, Store, ioScan) =
                 Picked(IF Len(Enumerated) = 0 THEN position
                        ELSE Least(position + 1, Len(Enumerated) - 1),
                        Plain(Store, "Ok"))

\* names for FileTodoList::create(name: &str): those of Names, the empty one,
\* one ending in a carriage return and one holding a line feed
TextNames == Names \cup {<<>>, <<"b", CR>>, <<"c", NL, "d">>}

\* a new process on the directory of st holds task id as st holds it: n is
\* what FileTodoList::new returns on that directory
Reloaded(st, id, n) ==
    /\ n.err = "Ok"
    /\ id \in DOMAIN n.st.cache
    /\ n.st.cache[id] = st.cache[id]

MovedReloaded(moved, id) ==
    moved.err = "Ok" => Reloaded(moved.st, id, File_new(moved.st.dir, "ok"))

MadeReloaded(made) ==
    made.err = "Ok" =>
        /\ made.st.cache[made.id].status = "Open"
        /\ Reloaded(made.st, made.id, File_new(made.st.dir, "ok"))
        /\ \A d1 \in {"next", "back"} :
             /\ MovedReloaded(File_apply(made.st, made.id, d1, "ok"), made.id)
             /\ \A d2 \in {"next", "back"} :
                  MovedReloaded(
                      File_apply(File_apply(made.st, made.id, d1, "ok").st,
                                 made.id, d2, "ok"),
                      made.id)

\* C16: on the file backend a task created with any name, after any
\* successful status transitions, is found by a backend constructed again on
\* the same directory under the same id with the same name and status.
C16_RoundTrip ==
    (backend = "File" /\ ~crashed /\ File_new(dir, "ok").err = "Ok") =>
        \A name \in TextNames : MadeReloaded(File_create(Store, name, "ok"))

\* the three markers are of MarkerWidth characters and differ
MarkerWidth == 14
Markers ==
    /\ \A st \in Statuses : Len(Display_Status(st)) = MarkerWidth
    /\ \A st1, st2 \in Statuses :
         Display_Status(st1) = Display_Status(st2) => st1 = st2

\* a line as claimed: the marker of the status, the selection marker, the name
LineAsClaimed(line, sel, t) ==
    /\ Len(line) = MarkerWidth + 1 + Len(t.name)
    /\ SubSeq(line, 1, MarkerWidth) = Display_Status(t.status)
    /\ line[MarkerWidth + 1] = (IF sel THEN ">" ELSE " ")
    /\ SubSeq(line, MarkerWidth + 2, Len(line)) = t.name

\* a line as printed: the selection marker, a space, the marker of the
\* status, a space, the name
LineAsPrinted(line, sel, t) ==
    /\ Len(line) = MarkerWidth + 3 + Len(t.name)
    /\ line[1] = (IF sel THEN ">" ELSE " ")
    /\ line[2] = " "
    /\ SubSeq(line, 3, MarkerWidth + 2) = Display_Status(t.status)
    /\ line[MarkerWidth + 3] = " "
    /\ SubSeq(line, MarkerWidth + 4, Len(line)) = t.name

\* text is the legend, a line feed, and one line per task of the
\* enumeration, in its order, the task at rank position selected
Listed(text, held, LineOk(_, _, _)) ==
    /\ Len(text) >= Len(Legend) + 1
    /\ SubSeq(text, 1, Len(Legend)) = Legend
    /\ text[Len(Legend) + 1] = NL
    /\ IF Len(Enumerated) = 0 THEN Len(text) = Len(Legend) + 1
       ELSE /\ Len(SplitNL(SubSeq(text, Len(Legend) + 2, Len(text)), <<>>, <<>>))
                   = Len(Enumerated)
            /\ \A i \in 1..Len(Enumerated) :
                 LineOk(SplitNL(SubSeq(text, Len(Legend) + 2, Len(text)), <<>>, <<>>)[i],
                        i - 1 = position,
                        held[Enumerated[i].id])

\* C17 as claimed: a task's line is the 14-character marker of its status,
\* then '>' if the task is selected and a space if not, then its name; the
\* listing is the legend followed by these lines in enumeration order.
C17_Render ==
    ~crashed =>
        /\ Markers
        /\ \A s1 \in IoOutcomes, s2 \in IoOutcomes :
             (Scanned(s1) /\ Scanned(s2)
                 /\ fmt(backend, position, Store, s1, s2).err = "Ok") =>
                 Listed(fmt(backend, position, Store, s1, s2).text,
                        Held(backend, Store), LineAsClaimed)

\* C17 as amended: a task's line is '>' if the task is selected and a space
\* if not, a space, the 14-character marker of its status, a space, and
\* its name; the listing is the legend, a line feed, and these lines in
\* enumeration order separated by line feeds (the scans succeeding).
C17_Listing ==
    ~crashed =>
        /\ Markers
        /\ \A s1 \in IoOutcomes, s2 \in IoOutcomes :
             (Scanned(s1) /\ Scanned(s2)
                 /\ fmt(backend, position, Store, s1, s2).err = "Ok") =>
                 Listed(fmt(backend, position, Store, s1, s2).text,
                        Held(backend, Store), LineAsPrinted)

\* the picker has just been printed with two tasks, the second selected
C17_Witness ==
    /\ ~crashed
    /\ last.op = "show" /\ last.err = "Ok"
    /\ Len(Enumerated) = 2
    /\ position = 1
    /\ \A i \in 1..2 : Enumerated[i].id \in DOMAIN Held(backend, Store)

FailedSaves == SaveOutcomes \ {"ok"}

\* a create whose save fails adds nothing to the cache
CreateFailed(r) == r.err = "Io" /\ r.st.cache = cache

\* a remove whose remove_file fails returns the error and changes nothing
RemoveFailed ==
    \A id \in Ids :
        load(dir, id, "ok").err = "Ok" =>
            File_remove(Store, id, "remove_fail") = Ret(Store, "Io", id, NoTask)

\* C18 as claimed: on the file backend a failed filesystem call leaves the
\* cache as it was: a create whose write fails adds no entry, a remove
\* whose deletion fails returns the error and changes neither the cache nor
\* the enumeration, a transition whose write fails leaves the cached status
\* as it was before the call.
C18_NoMutation ==
    (backend = "File" /\ ~crashed) =>
        /\ \A name \in Names, ioSave \in FailedSaves :
             CreateFailed(File_create(Store, name, ioSave))
        /\ RemoveFailed
        /\ \A id \in DOMAIN cache, dirn \in {"next", "back"}, ioSave \in FailedSaves :
             File_apply(Store, id, dirn, ioSave).st.cache[id].status = cache[id].status

\* C18 as amended: a create whose write fails adds no entry to the cache and
\* a remove whose deletion fails returns the error and changes neither the
\* cache nor the directory; a legal transition whose write fails returns the
\* I/O error with the cached task already in its new status, the other
\* cached tasks unchanged.
C18_FailedIo ==
    (backend = "File" /\ ~crashed) =>
        /\ \A name \in Names, ioSave \in FailedSaves :
             CreateFailed(File_create(Store, name, ioSave))
        /\ RemoveFailed
        /\ \A id \in DOMAIN cache, dirn \in {"next", "back"}, ioSave \in FailedSaves :
             Transition("File", dirn, cache[id]).err = "Ok" =>
                 /\ File_apply(Store, id, dirn, ioSave).err = "Io"
                 /\ File_apply(Store, id, dirn, ioSave).st.cache =
                        Put(cache, id, Transition("File", dirn, cache[id]).task)
                 /\ Transition("File", dirn, cache[id]).task.status # cache[id].status

\* an advance has just failed with an I/O error: the cache holds the task
\* as Done and its file still holds it as Open
C18_Witness ==
    /\ backend = "File" /\ ~crashed
    /\ last.op = "next" /\ last.err = "Io"
    /\ last.id \in DOMAIN cache
    /\ cache[last.id].status = "Done"
    /\ load(dir, last.id, "ok") =
           [err |-> "Ok", task |-> [cache[last.id] EXCEPT !.status = "Open"]]

\* C19: on the file backend a legal transition whose save fails returns an
\* I/O error and the task in memory has the new status; an illegal
\* transition returns AlreadyDone / AlreadyWont and writes nothing.
C19_AppliedInMemory ==
    (backend = "File" /\ ~crashed) =>
        \A id \in DOMAIN cache, dirn \in {"next", "back"}, ioSave \in SaveOutcomes :
            IF Transition("File", dirn, cache[id]).err = "Ok"
            THEN ioSave # "ok" =>
                   /\ File_apply(Store, id, dirn, ioSave).err = "Io"
                   /\ File_apply(Store, id, dirn, ioSave).st.cache[id].status =
                          (CASE dirn = "next" /\ cache[id].status = "Wont" -> "Open"
                             [] dirn = "next" /\ cache[id].status = "Open" -> "Done"
                             [] dirn = "back" /\ cache[id].status = "Open" -> "Wont"
                             [] dirn = "back" /\ cache[id].status = "Done" -> "Open")
            ELSE /\ File_apply(Store, id, dirn, ioSave).err =
                        (IF dirn = "next" THEN "AlreadyDone" ELSE "AlreadyWont")
                 /\ File_apply(Store, id, dirn, ioSave).st = Store

\* a retreat has just failed with an I/O error after File::create emptied
\* the file: the cache holds the task as Wont
C19_Witness ==
    /\ backend = "File" /\ ~crashed
    /\ last.op = "back" /\ last.err = "Io"
    /\ last.id \in DOMAIN cache
    /\ cache[last.id].status = "Wont"
    /\ file_name(last.id) \in DOMAIN dir
    /\ dir[file_name(last.id)] = <<>>

\* the ids of the names of d that parse
ParsedIds(d) == {parse(n) : n \in {m \in DOMAIN d : parse(m) # NoId}}

\* n is what FileTodoList::new returns on directory d
Constructed(d, n) ==
    /\ n.err = "Ok"
    /\ DOMAIN n.st.cache = ParsedIds(d)
    /\ n.st.next_id = IF ParsedIds(d) = {} THEN 1 ELSE Max(ParsedIds(d)) + 1
    /\ ParsedIds(d) = {} =>
         \A name \in Names : File_create(n.st, name, "ok").id = 1

\* C20: FileTodoList::new on any directory ignores the names that do not
\* parse as an unsigned integer, holds in its cache exactly the ids of the
\* names that parse, and sets next_id to the greatest of them plus one, or
\* to 1 when there is none, so that the first create on an empty directory
\* returns 1.
C20_Construct == Constructed(dir, File_new(dir, "ok"))

\* C21: on a directory (its entries have pairwise distinct names) the
\* startup scan yields no id twice, names that differ only in zero padding
\* included, so load_all never finds a task loaded already.
C21_ScanDistinct ==
    /\ \A i, j \in 1..Len(ids(dir)) : i # j => ids(dir)[i] # ids(dir)[j]
    /\ \A i \in 1..Len(ids(dir)) :
         Cardinality({n \in DOMAIN dir : parse(n) = ids(dir)[i]}) = 1

\* res, what a TaskPicker operation leaves, is an error with the position
\* where it was, or no error
KeepsPosition(res) == res.r.err \in {"Ok", "panic"} \/ res.pos = position

\* C22: a TaskPicker operation that returns an error leaves position as it
\* was, remove() whose store remove fails included.
C22_ErrorKeepsPosition ==
    ~crashed =>
        /\ KeepsPosition(TaskPicker_top(position, Store))
        /\ KeepsPosition(TaskPicker_up(position, Store))
        /\ \A s1 \in IoOutcomes :
             /\ KeepsPosition(TaskPicker_bottom(backend, position, Store, s1))
             /\ KeepsPosition(TaskPicker_down(backend, position, Store, s1))
             /\ \A ioSave \in SaveOutcomes :
                  /\ KeepsPosition(TaskPicker_right(backend, position, Store, s1, ioSave))
                  /\ KeepsPosition(TaskPicker_left(backend, position, Store, s1, ioSave))
                  /\ \A name \in Names :
                       KeepsPosition(TaskPicker_create(backend, position, Store,
                                                       name, ioSave, s1))
             /\ \A s2 \in IoOutcomes, io \in RemoveOutcomes :
                  KeepsPosition(TaskPicker_remove(backend, position, Store, s1, s2, io))

\* the ranks (from 1) of the lines of the listing text that start with '>'
MarkedLines(text) ==
    {i \in 1..Len(SplitNL(SubSeq(text, Len(Legend) + 2, Len(text)), <<>>, <<>>)) :
        /\ SplitNL(SubSeq(text, Len(Legend) + 2, Len(text)), <<>>, <<>>)[i] # <<>>
        /\ SplitNL(SubSeq(text, Len(Legend) + 2, Len(text)), <<>>, <<>>)[i][1] = ">"}

\* C23: in every reachable state the listing marks with '>' exactly the
\* line of the task at rank position when the store is not empty, and no
\* line when it is empty (the scans of the listing succeeding).
C23_OneMarked ==
    ~crashed =>
        \A s1 \in IoOutcomes, s2 \in IoOutcomes :
            (Scanned(s1) /\ Scanned(s2)
                /\ fmt(backend, position, Store, s1, s2).err = "Ok") =>
                MarkedLines(fmt(backend, position, Store, s1, s2).text) =
                    IF Len(Enumerated) = 0 THEN {} ELSE {position + 1}

====
